---- MODULE Spec2Model ----
(***************************************************************************)
(* A model of the fileserver's three HTTP handlers (internal/handlers)     *)
(* behind the router of internal/server, over a flat storage directory.    *)
(*                                                                         *)
(* Sizes are counted in bytes.  A file content is a sequence of blocks of  *)
(* BufSize bytes each (the copy buffer of the upload loop), each block     *)
(* being identified by one small integer; block 0 is the zero fill of a    *)
(* hole left by a write past the end of a file.                            *)
(*                                                                         *)
(* A file name is a string for a storage entry, and a sequence of path     *)
(* components for the name a download asks for ("" as first component is   *)
(* the leading slash of an absolute path).                                 *)
(***************************************************************************)
EXTENDS Integers, Sequences, FiniteSets, TLC

\* ------------------------------------------------------------------ bounds

\* Longest uploaded content that fits the limit, in blocks.
MaxLen == 2

\* Largest number of file parts in one multipart request.
MaxParts == 2

\* uploader.maxUploadSizeMB of the configuration the server runs with.
MaxUploadSizeMB == 3

\* ------------------------------------------------------- program constants

\* The shift of GetMaxUploadSize and of the copy buffer (1 << 20).
MBShift == 20

BufSize == 2 ^ MBShift

\* config.UploaderConfig.GetMaxUploadSize
GetMaxUploadSize == MaxUploadSizeMB * (2 ^ MBShift)

\* ------------------------------------------------------------ input sets

Procs == {1, 2}

\* Entries the storage directory can hold, in the order os.ReadDir sorts them.
NameOrder == <<"a.txt", "list.txt">>

StoreNames == {NameOrder[i] : i \in DOMAIN NameOrder}

\* len(file.Name()) of each entry.
NameLen == [n \in StoreNames |-> IF n = "a.txt" THEN 5 ELSE 8]

Fields == {"f1", "f2"}

Blocks == {1, 2}

\* n blocks b.
Mono(b, n) == [i \in 1..n |-> b]

\* A content one block too long for the upload limit.
OverLen == MaxUploadSizeMB + 1

UploadPath == <<"/upload", <<>>>>

DownloadPrefix == "/download/"

\* The names a download request asks for, as the components of r.URL.Path
\* after the prefix: stored names, the empty name, traversal sequences and an
\* absolute path. A name with ".." or an empty component reaches the handler
\* when its separators are sent escaped (..%2f..%2fetc%2fpasswd): the mux
\* matches on the escaped path and the handler reads the decoded one.
DownloadNames ==
    {<<n>> : n \in StoreNames}
        \cup {<<>>, <<"..", "..", "etc", "passwd">>, <<"", "etc", "passwd">>,
              <<"..", "storage", "a.txt">>}

NoReq == [method |-> "", path |-> <<"", <<>>>>, parts |-> <<>>, malformed |-> FALSE]

Request(m, path, parts, bad) ==
    [method |-> m, path |-> path, parts |-> parts, malformed |-> bad]

Part(f, n, c) == [field |-> f, name |-> n, content |-> c]

\* The single-file and empty forms of the sequential runs.
SingleForms ==
    {<<>>}
        \cup {<<Part("f1", n, Mono(b, l))>> :
                n \in StoreNames, b \in Blocks, l \in 0..MaxLen}
        \cup {<<Part("f1", n, Mono(1, OverLen))>> : n \in StoreNames}

SeqRequests ==
    {Request(m, UploadPath, ps, FALSE) : m \in {"POST", "GET"}, ps \in SingleForms}
        \cup {Request("POST", UploadPath, <<>>, TRUE)}
        \cup {Request(m, <<DownloadPrefix, nm>>, <<>>, FALSE) :
                m \in {"GET", "POST"}, nm \in DownloadNames}

\* Forms of up to MaxParts files; the content of the i-th submitted part is
\* made of blocks i, so that a stored content tells the part it came from.
RECURSIVE BatchForms(_)
BatchForms(n) ==
    IF n = 0
    THEN {<<>>}
    ELSE {Append(ps, Part(f, nm, Mono(n, l))) :
            ps \in BatchForms(n - 1),
            f \in (IF n = 1 THEN {"f1"} ELSE Fields),
            nm \in StoreNames,
            l \in 0..MaxLen}

BatchRequests ==
    {Request("POST", UploadPath, ps, FALSE) :
        ps \in UNION {BatchForms(n) : n \in 0..MaxParts}}

\* The single-file upload of process p in the concurrent runs: blocks p.
ConcRequests(p) ==
    {Request("POST", UploadPath, <<Part("f1", nm, Mono(p, l))>>, FALSE) :
        nm \in StoreNames, l \in 1..MaxLen}

\* The content of a name the directory has no entry for.
Absent == <<-1>>

NoFiles == [n \in StoreNames |-> Absent]

Exists(fs, n) == fs[n] # Absent

\* ------------------------------------------------------------------ state

VARIABLES
    dirExists,  \* the storage directory exists
    files,      \* storage entry name -> content, Absent when there is none
    hist,       \* per name: "never", "uploaded", "renamed" or "removed"
    pc,         \* per process: "idle", "loop", "copy" or "done"
    req,        \* per process: the request being (or last) handled
    resp,       \* per process: the response written
    log,        \* per process: the log entries of the request, in order
    snap,       \* per process: the storage when the handler was entered
    uploadErrors, \* per process: the handler's uploadErrors slice
    done,       \* per process: the parts handled so far, with their outcome
    dst,        \* per process: the destination handle of the part being copied
    handles,    \* per process: how many handles of each kind the request
                \* holds open
    lastUpload  \* the file of the request served last, if it was a single-file
                \* upload answered 200 and the storage was left alone since

vars == <<dirExists, files, hist, pc, req, resp, log, snap, uploadErrors, done,
          dst, handles, lastUpload>>

NoUpload == [name |-> "", content |-> <<>>]

NoResp ==
    [status |-> 0, kind |-> "none", text |-> "", bytes |-> <<>>, lines |-> <<>>,
     errors |-> <<>>, length |-> -1, disposition |-> "", env |-> "none",
     parsed |-> FALSE, cause |-> "none", outside |-> FALSE]

NoDst == [name |-> "", part |-> 0, off |-> 0, live |-> FALSE]

Storage == [dir |-> dirExists, files |-> files]

\* The handles a handler opens: the sandbox root (os.OpenRoot), a source
\* file (fh.Open, root.Open) and a destination file (root.Create).
HandleKinds == {"root", "file", "dst"}

NoHandles == [k \in HandleKinds |-> 0]

Open(h, k) == [h EXCEPT ![k] = @ + 1]

\* A Close that releases nothing.
CloseLeaks(h, k) == h

\* file.Close(), dst.Close(), root.Close().
Close(h, k) == [h EXCEPT ![k] = @ - 1]

Init ==
    /\ dirExists = FALSE
    /\ files = NoFiles
    /\ hist = [n \in StoreNames |-> "never"]
    /\ pc = [p \in Procs |-> "idle"]
    /\ req = [p \in Procs |-> NoReq]
    /\ resp = [p \in Procs |-> NoResp]
    /\ log = [p \in Procs |-> <<>>]
    /\ snap = [p \in Procs |-> [dir |-> FALSE, files |-> NoFiles]]
    /\ uploadErrors = [p \in Procs |-> <<>>]
    /\ done = [p \in Procs |-> <<>>]
    /\ dst = [p \in Procs |-> NoDst]
    /\ handles = [p \in Procs |-> NoHandles]
    /\ lastUpload = NoUpload

\* ----------------------------------------------------------------- router

\* The three patterns of the ServeMux: an exact pattern wins over the
\* subtree pattern "/download/".
Route(path) ==
    IF path = UploadPath THEN "UploadHandler"
    ELSE IF path = <<DownloadPrefix, <<"list.txt">>>> THEN "DownloadList"
    ELSE IF path[1] = DownloadPrefix THEN "DownloadHandle"
    ELSE "NotFound"

\* ---------------------------------------------------------- storage model

\* The entry names after creating or truncating n (O_CREATE|O_TRUNC).
CreateEntry(fs, n) == [fs EXCEPT ![n] = <<>>]

RemoveEntry(fs, n) == [fs EXCEPT ![n] = Absent]

\* One block written at block offset off of content c; a write past the end
\* leaves a hole of zero blocks.
WriteAt(c, off, b) ==
    LET n == IF Len(c) > off + 1 THEN Len(c) ELSE off + 1
    IN  [i \in 1..n |-> IF i = off + 1 THEN b ELSE IF i <= Len(c) THEN c[i] ELSE 0]

\* A listing kept from earlier requests: every name the directory ever held.
ReadDirCached(fs) == SelectSeq(NameOrder, LAMBDA n : hist[n] # "never")

\* os.ReadDir: the entries of the directory, sorted by name.
ReadDir(fs) == SelectSeq(NameOrder, LAMBDA n : Exists(fs, n))

\* ---------------------------------------------------------- upload handler

TextResp(status, text) ==
    [NoResp EXCEPT !.status = status, !.kind = "text", !.text = text]

\* A handler that lost its method check.
MethodAny(r, m) == TRUE

\* r.Method != http.MethodPost / http.MethodGet
MethodIs(r, m) == r.method = m

\* The bytes of the request body: the file contents and, for every part, the
\* boundary and headers framing it (at least one byte).
BodySize(r) ==
    LET RECURSIVE Sum(_)
        Sum(i) == IF i = 0 THEN 0
                  ELSE Sum(i - 1) + Len(r.parts[i].content) * BufSize + 1
    IN  Sum(Len(r.parts))

\* The parse without the http.MaxBytesReader around the body.
ParseUnlimited(r) == r.malformed

\* http.MaxBytesReader under r.ParseMultipartForm: the form is read to its
\* end before the handler goes on, and the read fails on a malformed body or
\* once more than GetMaxUploadSize() bytes were consumed.
ParseFails(r) == r.malformed \/ BodySize(r) > GetMaxUploadSize

\* How far the handler gets before its loop over the files.
UploadStage(r, env) ==
    IF ~MethodIs(r, "POST") THEN "method"
    ELSE IF ParseFails(r) THEN "parse"
    ELSE IF env = "mkdir" THEN "mkdir"
    ELSE IF env = "root" THEN "root"
    ELSE "loop"

\* UploadHandler from its entry to the loop: the method check, the parse
\* under the size limit, os.MkdirAll and os.OpenRoot.  env is the failure the
\* environment injects into MkdirAll or OpenRoot.
UploadBegin(p, r, env) ==
    LET stage == UploadStage(r, env) IN
    /\ pc[p] = "idle"
    /\ Route(r.path) = "UploadHandler"
    /\ req' = [req EXCEPT ![p] = r]
    /\ snap' = [snap EXCEPT ![p] = Storage]
    /\ uploadErrors' = [uploadErrors EXCEPT ![p] = <<>>]
    /\ done' = [done EXCEPT ![p] = <<>>]
    /\ dst' = [dst EXCEPT ![p] = NoDst]
    /\ dirExists' = (dirExists \/ stage \in {"root", "loop"})
    /\ pc' = [pc EXCEPT ![p] = IF stage = "loop" THEN "loop" ELSE "done"]
    /\ handles' = [handles EXCEPT ![p] =
                     IF stage = "loop" THEN Open(NoHandles, "root") ELSE NoHandles]
    /\ log' = [log EXCEPT ![p] =
                 <<"received request">> \o
                 (CASE stage = "parse" -> <<"error multipart parsing">>
                    [] stage = "mkdir" -> <<"error creating file directory">>
                    [] stage = "root" -> <<"error root opening">>
                    [] OTHER -> <<>>)]
    /\ resp' = [resp EXCEPT ![p] =
                 CASE stage = "method" -> TextResp(405, "method must be POST")
                   [] stage = "parse" ->
                        [TextResp(500, "internal error") EXCEPT !.parsed = TRUE]
                   [] stage \in {"mkdir", "root"} ->
                        [TextResp(500, "internal error") EXCEPT
                            !.parsed = TRUE, !.env = stage]
                   [] OTHER -> [NoResp EXCEPT !.parsed = TRUE]]
    /\ UNCHANGED <<files, hist, lastUpload>>

Processed(p) == {done[p][k].i : k \in DOMAIN done[p]}

Remaining(p) == (DOMAIN req[p].parts) \ Processed(p)

\* The loops over r.MultipartForm.File: the fields in the order Go ranges
\* over the map (any order), the files of one field in the order submitted.
NextIdx(p) ==
    LET parts == req[p].parts
        last == IF done[p] = <<>> THEN ""
                ELSE parts[done[p][Len(done[p])].i].field
        First(S) == CHOOSE i \in S : \A j \in S : i <= j
        OfField(f) == {i \in Remaining(p) : parts[i].field = f}
    IN  IF OfField(last) # {}
        THEN {First(OfField(last))}
        ELSE {First(OfField(f)) : f \in {parts[i].field : i \in Remaining(p)}}

\* Only the first error of a request is kept.
AppendFirstOnly(errs, e) == IF errs = <<>> THEN <<e>> ELSE errs

\* uploadErrors = append(uploadErrors, msg)
AppendError(errs, e) == Append(errs, e)

UploadError(msg, part) ==
    [msg |-> msg, name |-> part.name,
     field |-> IF msg = "error getting file" THEN part.field ELSE ""]

\* One pass of the loop that ends at a continue before the copy.
PartFails(p, i, msg, out) ==
    /\ pc[p] = "loop"
    /\ i \in NextIdx(p)
    /\ uploadErrors' = [uploadErrors EXCEPT ![p] =
                          AppendError(@, UploadError(msg, req[p].parts[i]))]
    /\ log' = [log EXCEPT ![p] = Append(@, msg)]
    /\ done' = [done EXCEPT ![p] = Append(@, [i |-> i, out |-> out])]
    /\ UNCHANGED <<dirExists, files, hist, pc, req, resp, snap, dst, lastUpload>>

\* fh.Open() fails: no handle was opened.
PartOpenFail(p) == \E i \in DOMAIN req[p].parts :
    /\ PartFails(p, i, "error getting file", "open")
    /\ UNCHANGED handles

\* fh.Open() succeeds, root.Create fails, file.Close().
PartCreateFail(p) == \E i \in DOMAIN req[p].parts :
    /\ PartFails(p, i, "error creating file", "create")
    /\ handles' = [handles EXCEPT ![p] = Close(Open(@, "file"), "file")]

\* fh.Open() and root.Create succeed: the entry exists and is empty.
PartCreate(p) == \E i \in DOMAIN req[p].parts :
    /\ pc[p] = "loop"
    /\ i \in NextIdx(p)
    /\ files' = CreateEntry(files, req[p].parts[i].name)
    /\ dst' = [dst EXCEPT ![p] =
                 [name |-> req[p].parts[i].name, part |-> i, off |-> 0,
                  live |-> TRUE]]
    /\ pc' = [pc EXCEPT ![p] = "copy"]
    /\ handles' = [handles EXCEPT ![p] = Open(Open(@, "file"), "dst")]
    /\ UNCHANGED <<dirExists, hist, req, resp, log, snap, uploadErrors, done,
                   lastUpload>>

\* io.CopyBuffer moves one buffer: a write at the handle's own offset, into
\* the entry while the handle's file is still linked under its name.
CopyChunk(p) ==
    LET d == dst[p]
        c == req[p].parts[d.part].content
    IN  /\ pc[p] = "copy"
        /\ d.off < Len(c)
        /\ files' = IF d.live
                    THEN [files EXCEPT ![d.name] = WriteAt(@, d.off, c[d.off + 1])]
                    ELSE files
        /\ dst' = [dst EXCEPT ![p].off = d.off + 1]
        /\ UNCHANGED <<dirExists, hist, pc, req, resp, log, snap, uploadErrors,
                       done, handles, lastUpload>>

\* os.Remove(filepath.Join(StorageDir, name)): the entry of that name goes,
\* whoever created it, and every handle open on it is left on an unlinked file.
Unlinked(d, n, fs) == [d EXCEPT !.live = d.live /\ ~(d.name = n /\ Exists(fs, n))]

\* io.CopyBuffer fails: the error is recorded, both handles are closed and the
\* partial file is removed by name.
CopyFail(p) ==
    LET d == dst[p]
        part == req[p].parts[d.part]
    IN  /\ pc[p] = "copy"
        /\ uploadErrors' = [uploadErrors EXCEPT ![p] =
                              AppendError(@, UploadError("error writing file", part))]
        /\ log' = [log EXCEPT ![p] =
                     Append(@, "error writing file") \o
                     (IF Exists(files, d.name) THEN <<>>
                      ELSE <<"failed to remove partial file">>)]
        /\ files' = RemoveEntry(files, d.name)
        /\ hist' = IF Exists(files, d.name)
                   THEN [hist EXCEPT ![d.name] = "removed"]
                   ELSE hist
        /\ dst' = [q \in Procs |->
                     IF q = p THEN NoDst ELSE Unlinked(dst[q], d.name, files)]
        /\ done' = [done EXCEPT ![p] = Append(@, [i |-> d.part, out |-> "copy"])]
        /\ pc' = [pc EXCEPT ![p] = "loop"]
        /\ handles' = [handles EXCEPT ![p] = Close(Close(@, "file"), "dst")]
        /\ UNCHANGED <<dirExists, req, resp, snap, lastUpload>>

\* io.CopyBuffer reached the end of the source: file.Close(), dst.Close().
CopyDone(p) ==
    LET d == dst[p] IN
    /\ pc[p] = "copy"
    /\ d.off = Len(req[p].parts[d.part].content)
    /\ hist' = IF d.live THEN [hist EXCEPT ![d.name] = "uploaded"] ELSE hist
    /\ dst' = [dst EXCEPT ![p] = NoDst]
    /\ done' = [done EXCEPT ![p] = Append(@, [i |-> d.part, out |-> "ok"])]
    /\ pc' = [pc EXCEPT ![p] = "loop"]
    /\ handles' = [handles EXCEPT ![p] = Close(Close(@, "file"), "dst")]
    /\ UNCHANGED <<dirExists, files, req, resp, log, snap, uploadErrors, lastUpload>>

\* After the loop: 207 with the JSON list of the errors, or 200; the deferred
\* root.Close() and cleanupRequest run.
UploadRespond(p) ==
    /\ pc[p] = "loop"
    /\ Remaining(p) = {}
    /\ resp' = [resp EXCEPT ![p] =
                 IF Len(uploadErrors[p]) > 0
                 THEN [@ EXCEPT !.status = 207, !.kind = "json",
                                !.errors = uploadErrors[p]]
                 ELSE [@ EXCEPT !.status = 200, !.kind = "text",
                                !.text = "All files uploaded successfully"]]
    /\ pc' = [pc EXCEPT ![p] = "done"]
    /\ handles' = [handles EXCEPT ![p] = Close(@, "root")]
    /\ UNCHANGED <<dirExists, files, hist, req, log, snap, uploadErrors, done, dst,
                   lastUpload>>

UploadStep(p) ==
    \/ PartOpenFail(p)
    \/ PartCreateFail(p)
    \/ PartCreate(p)
    \/ CopyChunk(p)
    \/ CopyFail(p)
    \/ CopyDone(p)
    \/ UploadRespond(p)

\* -------------------------------------------------------- download handler

\* strings.TrimPrefix(r.URL.Path, "/download/")
TrimPrefix(path) == IF path[1] = DownloadPrefix THEN path[2] ELSE <<path[1]>> \o path[2]

\* filepath.Base
Base(name) == IF name = <<>> THEN "." ELSE name[Len(name)]

\* Whether resolving name component by component from the root ever leaves
\* it: by a leading separator, or by a ".." met at the root itself.
RECURSIVE Escapes(_, _, _)
Escapes(name, i, depth) ==
    IF i > Len(name) THEN FALSE
    ELSE IF name[i] = "" THEN i = 1 \/ Escapes(name, i + 1, depth)
    ELSE IF name[i] = ".." THEN depth = 0 \/ Escapes(name, i + 1, depth - 1)
    ELSE Escapes(name, i + 1, depth + 1)

\* os.Root.Open on the flat storage directory: a name that escapes the root
\* is refused without touching the file system, a name of one component is
\* looked up among the entries, and nothing else resolves.
RootOpen(fs, name) ==
    IF Escapes(name, 1, 0)
    THEN [err |-> "escape", content |-> <<>>, outside |-> FALSE]
    ELSE IF Len(name) = 1 /\ name[1] \in StoreNames /\ Exists(fs, name[1])
    THEN [err |-> "none", content |-> fs[name[1]], outside |-> FALSE]
    ELSE [err |-> "notfound", content |-> <<>>, outside |-> FALSE]

\* DownloadHandle, whole.  env is the failure the environment injects into
\* OpenRoot, Stat or the transfer; cut is where a failed transfer stops.
DownloadHandle(p, r, env, cut) ==
    LET fileName == TrimPrefix(r.path)
        o == RootOpen(files, fileName)
    IN  /\ pc[p] = "idle"
        /\ Route(r.path) = "DownloadHandle"
        /\ req' = [req EXCEPT ![p] = r]
        /\ snap' = [snap EXCEPT ![p] = Storage]
        /\ log' = [log EXCEPT ![p] =
                     <<"received request">> \o
                     (IF MethodIs(r, "GET") /\ fileName # <<>> /\ dirExists
                         /\ env = "copy" /\ o.err = "none" /\ cut < Len(o.content)
                      THEN <<"Error transferring file">> ELSE <<>>)]
        /\ resp' = [resp EXCEPT ![p] =
                     IF ~MethodIs(r, "GET")
                     THEN TextResp(405, "method must be GET")
                     ELSE IF fileName = <<>>
                     THEN TextResp(400, "file name is not indicated")
                     ELSE IF ~dirExists \/ env = "root"
                     THEN [TextResp(500, "internal error") EXCEPT
                             !.env = IF dirExists THEN "root" ELSE "none"]
                     ELSE IF o.err # "none"
                     THEN [TextResp(404, "file is not found") EXCEPT
                             !.cause = o.err, !.outside = o.outside]
                     ELSE IF env = "stat"
                     THEN [TextResp(500, "unable to access file") EXCEPT !.env = "stat"]
                     ELSE [NoResp EXCEPT
                             !.status = 200, !.kind = "bytes",
                             !.length = Len(o.content) * BufSize,
                             !.disposition = Base(fileName),
                             !.bytes = IF env = "copy" /\ cut < Len(o.content)
                                       THEN SubSeq(o.content, 1, cut)
                                       ELSE o.content,
                             !.env = IF env = "copy" /\ cut < Len(o.content)
                                     THEN "copy" ELSE "none"]]
        /\ pc' = [pc EXCEPT ![p] = "done"]
        /\ uploadErrors' = [uploadErrors EXCEPT ![p] = <<>>]
        /\ done' = [done EXCEPT ![p] = <<>>]
        /\ handles' = [handles EXCEPT ![p] =
                         IF ~MethodIs(r, "GET") \/ fileName = <<>>
                            \/ ~dirExists \/ env = "root"
                         THEN NoHandles
                         ELSE IF o.err # "none"
                         THEN Close(Open(NoHandles, "root"), "root")
                         ELSE Close(Close(Open(Open(NoHandles, "root"), "file"),
                                          "file"), "root")]
        /\ UNCHANGED <<dirExists, files, hist, dst, lastUpload>>

\* ------------------------------------------------------------ list handler

ListHeader == "Files currently available:"

\* The document of DownloadList: the header line, then one line per entry.
ListLines(names) == <<ListHeader>> \o names

\* len(fileList): every line with its newline.
ListLength(names) ==
    LET RECURSIVE Sum(_)
        Sum(i) == IF i = 0 THEN 27 ELSE Sum(i - 1) + NameLen[names[i]] + 1
    IN  Sum(Len(names))

\* DownloadList, whole.  env is the failure the environment injects into
\* os.ReadDir, which also fails while the directory does not exist.
DownloadList(p, r, env) ==
    LET names == ReadDir(files) IN
    /\ pc[p] = "idle"
    /\ Route(r.path) = "DownloadList"
    /\ req' = [req EXCEPT ![p] = r]
    /\ snap' = [snap EXCEPT ![p] = Storage]
    /\ log' = [log EXCEPT ![p] = <<"received request">>]
    /\ resp' = [resp EXCEPT ![p] =
                 IF ~MethodIs(r, "GET")
                 THEN TextResp(405, "method must be GET")
                 ELSE IF ~dirExists \/ env = "readdir"
                 THEN [TextResp(500, "internal error") EXCEPT
                         !.env = IF dirExists THEN "readdir" ELSE "none"]
                 ELSE [NoResp EXCEPT
                         !.status = 200, !.kind = "lines",
                         !.lines = ListLines(names),
                         !.length = ListLength(names),
                         !.disposition = "list.txt"]]
    /\ pc' = [pc EXCEPT ![p] = "done"]
    /\ uploadErrors' = [uploadErrors EXCEPT ![p] = <<>>]
    /\ done' = [done EXCEPT ![p] = <<>>]
    /\ handles' = [handles EXCEPT ![p] = NoHandles]
    /\ UNCHANGED <<dirExists, files, hist, dst, lastUpload>>

\* ------------------------------------------------------------- environment

\* No handler is running and no response is waiting to be sent.
Quiet == \A q \in Procs : pc[q] = "idle"

\* The handler has returned: the server sends the response and is ready for
\* the next request of the connection.
Deliver(p) ==
    /\ pc[p] = "done"
    /\ pc' = [pc EXCEPT ![p] = "idle"]
    /\ lastUpload' =
          IF /\ Route(req[p].path) = "UploadHandler"
             /\ Len(req[p].parts) = 1
             /\ resp[p].status = 200
          THEN [name |-> req[p].parts[1].name, content |-> req[p].parts[1].content]
          ELSE NoUpload
    /\ req' = [req EXCEPT ![p] = NoReq]
    /\ resp' = [resp EXCEPT ![p] = NoResp]
    /\ log' = [log EXCEPT ![p] = <<>>]
    /\ snap' = [snap EXCEPT ![p] = [dir |-> FALSE, files |-> NoFiles]]
    /\ uploadErrors' = [uploadErrors EXCEPT ![p] = <<>>]
    /\ done' = [done EXCEPT ![p] = <<>>]
    /\ UNCHANGED <<dirExists, files, hist, dst, handles>>

\* An operator removes an entry of the storage directory.
EnvRemove(n) ==
    /\ Quiet
    /\ Exists(files, n)
    /\ files' = RemoveEntry(files, n)
    /\ hist' = [hist EXCEPT ![n] = "removed"]
    /\ lastUpload' = NoUpload
    /\ UNCHANGED <<dirExists, pc, req, resp, log, snap, uploadErrors, done, dst,
                   handles>>

\* An operator renames an entry of the storage directory.
EnvRename(n, m) ==
    /\ Quiet
    /\ Exists(files, n)
    /\ m # n
    /\ files' = [files EXCEPT ![m] = files[n], ![n] = Absent]
    /\ hist' = [hist EXCEPT ![m] = "renamed", ![n] = "removed"]
    /\ lastUpload' = NoUpload
    /\ UNCHANGED <<dirExists, pc, req, resp, log, snap, uploadErrors, done, dst,
                   handles>>

\* --------------------------------------------------------- specifications

\* The failures of a download: none, OpenRoot, Stat, or a transfer that stops
\* after cut blocks.
DownloadFaults ==
    {<<"none", 0>>, <<"root", 0>>, <<"stat", 0>>}
        \cup {<<"copy", cut>> : cut \in 0..(MaxLen - 1)}

\* Requests served one after the other, on an otherwise idle server.
UploadSeq ==
    /\ Quiet
    /\ \E r \in SeqRequests, env \in {"none", "mkdir", "root"} : UploadBegin(1, r, env)

DownloadSeq ==
    /\ Quiet
    /\ \E r \in SeqRequests, f \in DownloadFaults : DownloadHandle(1, r, f[1], f[2])

ListSeq ==
    /\ Quiet
    /\ \E r \in SeqRequests, env \in {"none", "readdir"} : DownloadList(1, r, env)

Next ==
    \/ UploadSeq
    \/ DownloadSeq
    \/ ListSeq
    \/ \E p \in Procs : UploadStep(p)
    \/ \E p \in Procs : Deliver(p)
    \/ \E n \in StoreNames : EnvRemove(n)
    \/ \E n, m \in StoreNames : EnvRename(n, m)

Spec == Init /\ [][Next]_vars

\* One multi-file upload on a fresh server.
UploadBatch ==
    /\ pc[1] = "idle"
    /\ \E r \in BatchRequests, env \in {"none", "mkdir", "root"} : UploadBegin(1, r, env)

NextBatch ==
    \/ UploadBatch
    \/ \E p \in Procs : UploadStep(p)

SpecBatch == Init /\ [][NextBatch]_vars

\* Two uploads, one per process, running concurrently on a fresh server.
UploadConc ==
    \E p \in Procs :
        /\ pc[p] = "idle"
        /\ \E r \in ConcRequests(p), env \in {"none", "mkdir", "root"} :
              UploadBegin(p, r, env)

NextConc ==
    \/ UploadConc
    \/ \E p \in Procs : UploadStep(p)

SpecConc == Init /\ [][NextConc]_vars

\* One multi-file upload on a server whose storage directory is not there
\* yet, then downloads of what it left.
UploadFirst ==
    /\ Quiet
    /\ ~dirExists
    /\ \E r \in BatchRequests, env \in {"none", "mkdir", "root"} : UploadBegin(1, r, env)

NextHandles ==
    \/ UploadFirst
    \/ DownloadSeq
    \/ \E p \in Procs : UploadStep(p)
    \/ \E p \in Procs : Deliver(p)

SpecHandles == Init /\ [][NextHandles]_vars

\* ------------------------------------------------------------------ claims

IsUpload(p) == Route(req[p].path) = "UploadHandler"

IsDownload(p) == Route(req[p].path) = "DownloadHandle"

IsList(p) == Route(req[p].path) = "DownloadList"

Count(x, seq) == Cardinality({i \in DOMAIN seq : seq[i] = x})

\* C1: a request to the upload handler whose method is not POST is answered
\* 405, its multipart body is not parsed, and the storage (the directory and
\* every entry) is as it was when the handler was entered.
NonPostUploadRejected ==
    \A p \in Procs :
        (pc[p] # "idle" /\ IsUpload(p) /\ req[p].method # "POST")
            => /\ pc[p] = "done"
               /\ resp[p].status = 405
               /\ ~resp[p].parsed
               /\ Storage = snap[p]

\* A GET to /upload that carries a file was answered 405 on a server whose
\* storage directory exists, and the file's name has no entry.
NonPostUploadWitness ==
    /\ pc[1] = "done" /\ IsUpload(1) /\ req[1].method = "GET"
    /\ Len(req[1].parts) = 1
    /\ resp[1].status = 405
    /\ dirExists
    /\ ~Exists(files, req[1].parts[1].name)

\* C2: after a single-file upload answered 200, the next request, a GET of
\* /download/<that name> served without an injected failure, answers 200 with
\* the uploaded content and its size as Content-Length, for every name.
RoundTrip ==
    \A p \in Procs :
        (/\ pc[p] = "done"
         /\ lastUpload # NoUpload
         /\ req[p].method = "GET"
         /\ req[p].path = <<DownloadPrefix, <<lastUpload.name>>>>
         /\ resp[p].env = "none")
            => /\ resp[p].status = 200
               /\ resp[p].kind = "bytes"
               /\ resp[p].bytes = lastUpload.content
               /\ resp[p].length = Len(lastUpload.content) * BufSize

\* The name holds a ".." component or starts at the file system root.
IsTraversal(name) ==
    name # <<>> /\ (name[1] = "" \/ \E i \in DOMAIN name : name[i] = "..")

\* C3: a GET download of a traversal or absolute name, served without an
\* injected failure, is answered 404 in every state of the storage, and opens
\* nothing outside the storage root.
TraversalAlways404 ==
    \A p \in Procs :
        (/\ pc[p] = "done" /\ IsDownload(p) /\ req[p].method = "GET"
         /\ IsTraversal(TrimPrefix(req[p].path))
         /\ resp[p].env = "none")
            => resp[p].status = 404 /\ ~resp[p].outside

\* C4: a listing answered 200 holds each entry of the storage directory as it
\* is at that request exactly once and no other name: a file uploaded (or an
\* entry renamed to that name) and not removed or renamed since is there once,
\* a name removed or renamed away is not there.
ListingIsCurrent ==
    \A p \in Procs :
        (pc[p] = "done" /\ IsList(p) /\ resp[p].status = 200)
            => /\ resp[p].lines[1] = ListHeader
               /\ Len(resp[p].lines) = 1 + Cardinality({n \in StoreNames : Exists(files, n)})
               /\ \A n \in StoreNames :
                    /\ hist[n] \in {"uploaded", "renamed"} => Count(n, resp[p].lines) = 1
                    /\ hist[n] \in {"removed", "never"} => Count(n, resp[p].lines) = 0

\* A listing answered 200 after a.txt was uploaded and then renamed to
\* list.txt: it names list.txt and not a.txt.
ListingWitness ==
    /\ pc[1] = "done" /\ IsList(1) /\ resp[1].status = 200
    /\ hist["a.txt"] = "removed"
    /\ hist["list.txt"] = "renamed"
    /\ resp[1].lines = <<ListHeader, "list.txt">>

\* The request of p went through its loop over the files and was answered.
LoopAnswered(p) == pc[p] = "done" /\ IsUpload(p) /\ resp[p].status \in {200, 207}

\* The part indices in the order the loop took them.
OrderOf(p) == [k \in DOMAIN done[p] |-> done[p][k].i]

FailedOf(p) == SelectSeq(done[p], LAMBDA d : d.out # "ok")

MsgOf(out) ==
    CASE out = "open" -> "error getting file"
      [] out = "create" -> "error creating file"
      [] out = "copy" -> "error writing file"

\* Every part was taken exactly once, every failed part left exactly one
\* message, in the order of the failures, and the answer is 207 with these
\* messages if there is one and 200 if there is none.
FailuresReported(p) ==
    LET parts == req[p].parts
        failed == FailedOf(p)
    IN  /\ Len(done[p]) = Len(parts)
        /\ \A i \in DOMAIN parts : Count(i, OrderOf(p)) = 1
        /\ Len(uploadErrors[p]) = Len(failed)
        /\ \A k \in DOMAIN failed :
              uploadErrors[p][k] = UploadError(MsgOf(failed[k].out), parts[failed[k].i])
        /\ IF Len(failed) > 0
           THEN resp[p].status = 207 /\ resp[p].errors = uploadErrors[p]
           ELSE resp[p].status = 200

\* The part taken k-th is in storage under its name, whole.
Stored(p, k) ==
    LET part == req[p].parts[done[p][k].i]
    IN  files[part.name] = part.content

\* A part taken after the k-th carries the same file name.
NameTakenAgain(p, k) ==
    \E j \in DOMAIN done[p] :
        j > k /\ req[p].parts[done[p][j].i].name = req[p].parts[done[p][k].i].name

\* C5 as stated: in an upload that reached its loop every part is taken once,
\* failures are reported one message each with 207 (200 if none), and every
\* part that did not fail is in storage with its full content afterwards.
BatchKeepsEveryGoodPart ==
    \A p \in Procs :
        LoopAnswered(p)
            => /\ FailuresReported(p)
               /\ \A k \in DOMAIN done[p] : done[p][k].out = "ok" => Stored(p, k)

\* C5 amended: as above, but a part that did not fail is in storage with its
\* full content only if no part taken later in the request carries its name.
BatchKeepsLastGoodPart ==
    \A p \in Procs :
        LoopAnswered(p)
            => /\ FailuresReported(p)
               /\ \A k \in DOMAIN done[p] :
                    (done[p][k].out = "ok" /\ ~NameTakenAgain(p, k)) => Stored(p, k)

\* Two files of different names, the first could not be created and the second
\* was written: 207 with the one message, and the second file is stored.
BatchWitness ==
    /\ LoopAnswered(1)
    /\ Len(req[1].parts) = 2
    /\ req[1].parts[1].name # req[1].parts[2].name
    /\ \E k \in DOMAIN done[1] : done[1][k] = [i |-> 1, out |-> "create"]
    /\ \E k \in DOMAIN done[1] : done[1][k] = [i |-> 2, out |-> "ok"]
    /\ resp[1].status = 207
    /\ Len(resp[1].errors) = 1
    /\ resp[1].errors[1].name = req[1].parts[1].name
    /\ Len(req[1].parts[2].content) > 0
    /\ files[req[1].parts[2].name] = req[1].parts[2].content

\* C6: an upload whose body is larger than the configured maximum never
\* reaches the loop over its files: it is answered 500 and the storage (the
\* directory and every entry) is as it was when the handler was entered.
OversizeUploadLeavesNothing ==
    \A p \in Procs :
        (/\ pc[p] # "idle" /\ IsUpload(p) /\ req[p].method = "POST"
         /\ BodySize(req[p]) > GetMaxUploadSize)
            => /\ pc[p] = "done"
               /\ resp[p].status = 500
               /\ Storage = snap[p]

\* An oversized upload was answered 500 on a server whose storage directory
\* exists, and the name of its file has no entry.
OversizeWitness ==
    /\ pc[1] = "done" /\ IsUpload(1) /\ req[1].method = "POST"
    /\ ~req[1].malformed
    /\ BodySize(req[1]) > GetMaxUploadSize
    /\ resp[1].status = 500
    /\ dirExists
    /\ ~Exists(files, req[1].parts[1].name)

\* The request is wrong on the client's side: a method the handler does not
\* take, a download without a file name, an upload that is not multipart.
ClientError(p) ==
    \/ IsUpload(p) /\ req[p].method # "POST"
    \/ (IsDownload(p) \/ IsList(p)) /\ req[p].method # "GET"
    \/ IsDownload(p) /\ req[p].method = "GET" /\ TrimPrefix(req[p].path) = <<>>
    \/ IsUpload(p) /\ req[p].method = "POST" /\ req[p].malformed

\* C7: a client error (bad method, missing file name, malformed multipart) is
\* answered with a 4xx status.
ClientErrorsAre4xx ==
    \A p \in Procs :
        (pc[p] = "done" /\ ClientError(p))
            => resp[p].status >= 400 /\ resp[p].status < 500

\* C8: when the sandboxed open of a download refuses a name that leaves the
\* storage root, the log of the request holds an entry other than the receipt
\* of the request, written before the 404.
EscapeRejectionLogged ==
    \A p \in Procs :
        (pc[p] = "done" /\ IsDownload(p) /\ resp[p].cause = "escape")
            => /\ resp[p].status = 404
               /\ \E i \in DOMAIN log[p] : log[p][i] # "received request"

\* The order the claim gives: the fields in the order they first appear in
\* the form, the files of a field in the order submitted.
ClaimedOrder(parts) ==
    LET FirstOf(i) == CHOOSE j \in DOMAIN parts :
                        /\ parts[j].field = parts[i].field
                        /\ \A k \in DOMAIN parts : parts[k].field = parts[i].field => j <= k
        Before(i, j) == FirstOf(i) < FirstOf(j) \/ (FirstOf(i) = FirstOf(j) /\ i < j)
        Pos(i) == 1 + Cardinality({j \in DOMAIN parts : Before(j, i)})
    IN  [k \in DOMAIN parts |-> CHOOSE i \in DOMAIN parts : Pos(i) = k]

\* The part that comes last in the claimed order among those named as part i.
LastOfName(parts, i) ==
    LET order == ClaimedOrder(parts)
        At(j) == CHOOSE k \in DOMAIN order : order[k] = j
    IN  \A j \in DOMAIN parts : parts[j].name = parts[i].name => At(j) <= At(i)

\* C9: after an upload whose parts all succeeded, each name holds the content
\* of the part of that name that comes last in the order submitted (fields by
\* first appearance, then the files of a field in order), whatever the run.
SubmissionOrderDecides ==
    \A p \in Procs :
        (LoopAnswered(p) /\ resp[p].status = 200)
            => \A i \in DOMAIN req[p].parts :
                  LastOfName(req[p].parts, i)
                      => files[req[p].parts[i].name] = req[p].parts[i].content

\* C10: when two concurrent uploads of the same name have both finished and
\* one of them answered 200, the name holds the complete content of an upload
\* that answered 200.
LastWriterWins ==
    (/\ LoopAnswered(1) /\ LoopAnswered(2)
     /\ req[1].parts[1].name = req[2].parts[1].name
     /\ \E p \in Procs : resp[p].status = 200)
        => \E p \in Procs :
              /\ resp[p].status = 200
              /\ files[req[p].parts[1].name] = req[p].parts[1].content

\* C11: a handler that has returned holds no handle open: the sandbox root
\* and every source and destination file it opened are closed, whatever the
\* path it left by. Inside the upload loop the root is open once, a pass that
\* is copying holds exactly one source and one destination handle, and no
\* file handle is left open between two passes, however many parts there are.
HandlesScoped ==
    \A p \in Procs :
        /\ \A k \in HandleKinds : handles[p][k] \in {0, 1}
        /\ pc[p] \in {"idle", "done"} => handles[p] = NoHandles
        /\ pc[p] = "loop" => handles[p] = Open(NoHandles, "root")
        /\ pc[p] = "copy" => handles[p] = [k \in HandleKinds |-> 1]

\* An upload of two parts has returned with 207: one part failed at
\* root.Create, the other in the copy; nothing is left open.
HandlesUploadWitness ==
    /\ LoopAnswered(1)
    /\ Len(req[1].parts) = 2
    /\ {done[1][k].out : k \in DOMAIN done[1]} = {"create", "copy"}
    /\ resp[1].status = 207
    /\ handles[1] = NoHandles

====
